---- MODULE Spec2Model ----
(***************************************************************************)
(* Model of pdf_full_loader.py: a Streamlit page that uploads a PDF into a *)
(* local Qdrant collection and answers questions over it.                  *)
(*                                                                         *)
(* Streamlit runs main() from top to bottom once per user interaction.     *)
(* One run is modelled as a sequence of steps, pc naming the position of   *)
(* the run in main(); the on-disk Qdrant store and st.session_state live   *)
(* across runs, everything else is local to a run.                         *)
(*                                                                         *)
(* Units: a cost is an integer number of micro-dollars (1e-6 $); the       *)
(* sidebar prints with 5 decimals, i.e. in units of 1e-5 $.                *)
(* An optional value (Python None or a value) is a sequence of length 0    *)
(* or 1.                                                                   *)
(***************************************************************************)
EXTENDS Integers, Sequences, FiniteSets, TLC

VARIABLES
    pc,          \* position of the current run in main()
    runs,        \* number of runs of main() started so far
    store,       \* the Qdrant store at QDRANT_PATH: a set of collections
    costs,       \* st.session_state.costs
    model_name,  \* st.session_state.model_name
    max_token,   \* st.session_state.max_token
    selection,   \* main: the page radio's value
    model,       \* select_model: the model radio's value
    pdf_text,    \* page_pdf_upload_and_build_vector_db: get_pdf_text()'s result
    query,       \* page_ask_my_pdf: the text input's value
    docs,        \* the documents the retriever returned to the chain
    answer,      \* page_ask_my_pdf: answer
    shown,       \* the answer written to response_container
    sidebar,     \* the cost lines main wrote to the sidebar
    trace,       \* history: the external calls of the current run, in order
    store0,      \* history: the store when the current run started
    nQueries,    \* history: queries of the session whose model call returned
    nLoads       \* history: calls of load_qdrant so far

vars == <<pc, runs, store, costs, model_name, max_token, selection, model,
          pdf_text, query, docs, answer, shown, sidebar, trace, store0,
          nQueries, nLoads>>

----------------------------------------------------------------------------
\* Bounds of the model.

\* runs of main() in one session
MaxRuns == 3
\* distinct chunk texts a PDF can contain
NumChunks == 2
\* chunks of one uploaded PDF
MaxChunks == 2
\* entries the collection may hold
MaxEntries == 3

----------------------------------------------------------------------------
\* Constants of the program.

QDRANT_PATH == "./local_qdrant"
COLLECTION_NAME == "my_collection_2"
VectorSize == 1536
Cosine == "Cosine"
TopK == 10
InstructionTokens == 300

None == <<>>
Some(x) == <<x>>

Pages == {"Cargar PDF", "Consultar PDF"}
ModelLabels == {"GPT-3.5", "GPT-3.5-16k", "GPT-4"}

\* what the question box can hold: nothing, or a question
Queries == {"", "What is this about?"}

\* total_cost of one call as the callback reports it, in micro-dollars
CostValues == {0, 4, 26}

Chunks == 1..NumChunks

RECURSIVE SeqsUpTo(_, _)
SeqsUpTo(S, n) ==
    IF n = 0 THEN {<<>>}
    ELSE LET shorter == SeqsUpTo(S, n - 1)
         IN  shorter \cup {Append(s, x) : s \in {t \in shorter : Len(t) = n - 1}, x \in S}

\* What the file uploader returns: no file, or a PDF, which is represented by
\* the chunks its extracted text splits into (none for a PDF without text).
Uploads == {None} \cup {Some(c) : c \in SeqsUpTo(Chunks, MaxChunks)}

\* Python truthiness of an optional list and of a string
TruthyList(v) == v # None /\ v[1] # <<>>
TruthyStr(s) == s # ""

RECURSIVE Sum(_)
Sum(s) == IF s = <<>> THEN 0 ELSE s[1] + Sum(Tail(s))

Min(a, b) == IF a < b THEN a ELSE b

\* f"{x:.5f}": x micro-dollars rounded to units of 1e-5 $
Fmt5(x) == (x + 5) \div 10

----------------------------------------------------------------------------
\* The Qdrant client, as far as the program uses it.

collection_names(s) == {c.name : c \in s}

Named(s) == {c \in s : c.name = COLLECTION_NAME}

create_collection(s, name, size, distance) ==
    s \cup {[name |-> name, size |-> size, distance |-> distance, points |-> <<>>]}

\* the collection exists as load_qdrant creates it
Ready(s) ==
    \E c \in Named(s) : c.size = VectorSize /\ c.distance = Cosine

\* the entries of the collection, in insertion order
Points(s) == IF Named(s) = {} THEN <<>> ELSE (CHOOSE c \in Named(s) : TRUE).points

\* an upsert keyed by the text would skip the texts already stored
add_texts_dedup(s, texts) ==
    {IF c.name = COLLECTION_NAME
     THEN [c EXCEPT !.points =
               @ \o SelectSeq(texts, LAMBDA t : \A i \in 1..Len(c.points) : c.points[i] # t)]
     ELSE c : c \in s}

\* Qdrant.from_texts (lines 98-103) would start the collection afresh
add_texts_replace(s, texts) ==
    {IF c.name = COLLECTION_NAME THEN [c EXCEPT !.points = texts] ELSE c : c \in s}

\* Qdrant.add_texts: one new entry per text, appended
add_texts(s, texts) ==
    {IF c.name = COLLECTION_NAME THEN [c EXCEPT !.points = @ \o texts] ELSE c : c \in s}

\* similarity search with k = TopK: the nearest min(k, n) entries
similarity_search(s) == SubSeq(Points(s), 1, Min(TopK, Len(Points(s))))

Event(op) == [op |-> op, ready |-> Ready(store)]

----------------------------------------------------------------------------
\* select_model

\* the mapping with the second test on the second label
select_model_name_three_way(m) ==
    IF m = "GPT-3.5" THEN "gpt-3.5-turbo"
    ELSE IF m = "GPT-3.5-16k" THEN "gpt-3.5-turbo-16k"
    ELSE "gpt-4"

\* select_model, lines 38-43
select_model_name(m) ==
    IF m = "GPT-3.5" THEN "gpt-3.5-turbo"
    ELSE IF m = "GPT-3.5" THEN "gpt-3.5-turbo-16k"
    ELSE "gpt-4"

\* OpenAI.modelname_to_contextsize, line 46
modelname_to_contextsize(name) ==
    IF name = "gpt-4" THEN 8192
    ELSE IF name = "gpt-3.5-turbo" THEN 4096
    ELSE 16385

\* recreate_collection instead of the test of line 79
load_qdrant_recreate(s) ==
    create_collection(s \ Named(s), COLLECTION_NAME, VectorSize, Cosine)

\* load_qdrant without lines 79-83
load_qdrant_no_create(s) == s

\* load_qdrant: the store it leaves
load_qdrant(s) ==
    IF COLLECTION_NAME \notin collection_names(s)
    THEN create_collection(s, COLLECTION_NAME, VectorSize, Cosine)
    ELSE s

\* load_qdrant: the calls it makes on the store
load_qdrant_calls(s) ==
    <<Event("QdrantClient"), Event("get_collections")>>
    \o (IF COLLECTION_NAME \notin collection_names(s)
        THEN <<Event("create_collection")>> ELSE <<>>)

----------------------------------------------------------------------------
OtherCollection ==
    [name |-> "my_documents", size |-> VectorSize, distance |-> Cosine, points |-> <<>>]

Init ==
    /\ pc = "idle"
    /\ runs = 0
    /\ store \in {{}, {OtherCollection}}
    /\ costs = <<>>
    /\ model_name = "unset"
    /\ max_token = 0
    /\ selection = "-"
    /\ model = "-"
    /\ pdf_text = None
    /\ query = ""
    /\ docs = <<>>
    /\ answer = None
    /\ shown = None
    /\ sidebar = None
    /\ trace = <<>>
    /\ store0 = store
    /\ nQueries = 0
    /\ nLoads = 0

\* init_page, line 33
init_page_costs_kept(c) == c

init_page_costs(c) == <<>>

\* main, line 168: a run starts on a cleared page; init_page resets the costs
init_page ==
    /\ pc \in {"idle", "done", "error"}
    /\ runs < MaxRuns
    /\ runs' = runs + 1
    /\ costs' = init_page_costs(costs)
    /\ selection' = "-"
    /\ model' = "-"
    /\ pdf_text' = None
    /\ query' = ""
    /\ docs' = <<>>
    /\ answer' = None
    /\ shown' = None
    /\ sidebar' = None
    /\ trace' = <<>>
    /\ store0' = store
    /\ pc' = "main"
    /\ UNCHANGED <<store, model_name, max_token, nQueries, nLoads>>

\* main, lines 170-174: the page radio and the dispatch on it
main ==
    /\ pc = "main"
    /\ \E s \in Pages :
        /\ selection' = s
        /\ pc' = IF s = "Cargar PDF" THEN "page_pdf_upload"
                 ELSE IF s = "Consultar PDF" THEN "page_ask"
                 ELSE "sidebar"
    /\ UNCHANGED <<runs, store, costs, model_name, max_token, model, pdf_text,
                   query, docs, answer, shown, sidebar, trace, store0, nQueries, nLoads>>

----------------------------------------------------------------------------
\* The upload page.

\* get_pdf_text: None without a file, else the chunks of the file's text
get_pdf_text(uploaded_file) ==
    IF uploaded_file # None THEN Some(uploaded_file[1]) ELSE None

upload_branch_not_none(text) ==
    IF text # None THEN "build_vector_store" ELSE "sidebar"

\* page_pdf_upload_and_build_vector_db, line 128: if pdf_text
upload_branch(text) ==
    IF TruthyList(text) THEN "build_vector_store" ELSE "sidebar"

page_pdf_upload_and_build_vector_db ==
    /\ pc = "page_pdf_upload"
    /\ \E uploaded_file \in Uploads :
        /\ uploaded_file # None =>
               Len(Points(store)) + Len(uploaded_file[1]) <= MaxEntries
        /\ pdf_text' = get_pdf_text(uploaded_file)
        /\ pc' = upload_branch(pdf_text')
    /\ UNCHANGED <<runs, store, costs, model_name, max_token, selection, model,
                   query, docs, answer, shown, sidebar, trace, store0, nQueries, nLoads>>

\* build_vector_store, line 94
build_vector_store_load_qdrant ==
    /\ pc = "build_vector_store"
    /\ trace' = trace \o load_qdrant_calls(store)
    /\ store' = load_qdrant(store)
    /\ nLoads' = nLoads + 1
    /\ pc' = "add_texts"
    /\ UNCHANGED <<runs, costs, model_name, max_token, selection, model, pdf_text,
                   query, docs, answer, shown, sidebar, store0, nQueries>>

\* build_vector_store, line 95: the embedding and the upsert succeed
build_vector_store_add_texts ==
    /\ pc = "add_texts"
    /\ trace' = Append(trace, Event("add_texts"))
    /\ IF Named(store) = {}
       THEN pc' = "error" /\ store' = store
       ELSE pc' = "sidebar" /\ store' = add_texts(store, pdf_text[1])
    /\ UNCHANGED <<runs, costs, model_name, max_token, selection, model, pdf_text,
                   query, docs, answer, shown, sidebar, store0, nQueries, nLoads>>

\* build_vector_store, line 95: the embedding or the upsert fails after k of
\* the texts were stored; nothing catches the error
build_vector_store_raise ==
    /\ pc = "add_texts"
    /\ trace' = Append(trace, Event("add_texts"))
    /\ \E k \in 0..(Len(pdf_text[1]) - 1) :
        store' = add_texts(store, SubSeq(pdf_text[1], 1, k))
    /\ pc' = "error"
    /\ UNCHANGED <<runs, costs, model_name, max_token, selection, model, pdf_text,
                   query, docs, answer, shown, sidebar, store0, nQueries, nLoads>>

----------------------------------------------------------------------------
\* The question page.

\* page_ask_my_pdf, line 144
select_model ==
    /\ pc = "page_ask"
    /\ \E m \in ModelLabels :
        /\ model' = m
        /\ model_name' = select_model_name(m)
        /\ max_token' = modelname_to_contextsize(select_model_name(m)) - InstructionTokens
    /\ pc' = "text_input"
    /\ UNCHANGED <<runs, store, costs, selection, pdf_text, query, docs, answer,
                   shown, sidebar, trace, store0, nQueries, nLoads>>

ask_branch_unguarded(q) == "build_qa_model"

\* page_ask_my_pdf, line 150: if not query
ask_branch(q) ==
    IF ~TruthyStr(q) THEN "sidebar" ELSE "build_qa_model"

\* page_ask_my_pdf, lines 149-151
text_input ==
    /\ pc = "text_input"
    /\ \E q \in Queries :
        /\ query' = q
        /\ pc' = ask_branch(q)
    /\ answer' = None
    /\ UNCHANGED <<runs, store, costs, model_name, max_token, selection, model,
                   pdf_text, docs, shown, sidebar, trace, store0, nQueries, nLoads>>

\* build_qa_model: load_qdrant, then the retriever and the chain are built
\* without any call; the chain object is truthy, so line 154 always passes
build_qa_model ==
    /\ pc = "build_qa_model"
    /\ trace' = trace \o load_qdrant_calls(store)
    /\ store' = load_qdrant(store)
    /\ nLoads' = nLoads + 1
    /\ pc' = "ask"
    /\ UNCHANGED <<runs, costs, model_name, max_token, selection, model, pdf_text,
                   query, docs, answer, shown, sidebar, store0, nQueries>>

\* ask, line 136, first half: the chain asks the retriever for the context
ask_retrieve ==
    /\ pc = "ask"
    /\ trace' = Append(trace, Event("similarity_search"))
    /\ IF Named(store) = {}
       THEN pc' = "error" /\ docs' = docs
       ELSE pc' = "ask_llm" /\ docs' = similarity_search(store)
    /\ UNCHANGED <<runs, store, costs, model_name, max_token, selection, model,
                   pdf_text, query, answer, shown, sidebar, store0, nQueries, nLoads>>

\* ask, line 136, second half: the hosted model answers; lines 138, 157 and
\* 161-164: the cost is appended and the answer is written
ask_return ==
    /\ pc = "ask_llm"
    /\ trace' = Append(trace, Event("chat_completion"))
    /\ \E cost \in CostValues :
        costs' = Append(costs, cost)
    /\ answer' = Some([query |-> query, result |-> model_name, source_documents |-> docs])
    /\ shown' = answer'
    /\ nQueries' = nQueries + 1
    /\ pc' = "sidebar"
    /\ UNCHANGED <<runs, store, model_name, max_token, selection, model, pdf_text,
                   query, docs, sidebar, store0, nLoads>>

\* a handler that swallowed the error would go on to line 157
ask_raise_caught ==
    /\ pc = "ask_llm"
    /\ trace' = Append(trace, Event("chat_completion"))
    /\ costs' = Append(costs, 0)
    /\ pc' = "sidebar"
    /\ UNCHANGED <<runs, store, model_name, max_token, selection, model, pdf_text,
                   query, docs, answer, shown, sidebar, store0, nQueries, nLoads>>

\* ask, line 136: the hosted-model call fails; nothing catches the error, so
\* the run ends there
ask_raise ==
    /\ pc = "ask_llm"
    /\ trace' = Append(trace, Event("chat_completion"))
    /\ pc' = "error"
    /\ UNCHANGED <<runs, store, costs, model_name, max_token, selection, model,
                   pdf_text, query, docs, answer, shown, sidebar, store0, nQueries, nLoads>>

----------------------------------------------------------------------------
\* main, lines 176-180: the total and one line per cost
main_sidebar ==
    /\ pc = "sidebar"
    /\ sidebar' = Some([total |-> Fmt5(Sum(costs)),
                        lines |-> [i \in 1..Len(costs) |-> Fmt5(costs[i])]])
    /\ pc' = "done"
    /\ UNCHANGED <<runs, store, costs, model_name, max_token, selection, model,
                   pdf_text, query, docs, answer, shown, trace, store0, nQueries, nLoads>>

Next ==
    \/ init_page
    \/ main
    \/ page_pdf_upload_and_build_vector_db
    \/ build_vector_store_load_qdrant
    \/ build_vector_store_add_texts
    \/ build_vector_store_raise
    \/ select_model
    \/ text_input
    \/ build_qa_model
    \/ ask_retrieve
    \/ ask_return
    \/ ask_raise
    \/ main_sidebar

----------------------------------------------------------------------------
\* Properties.

RunEnded == pc \in {"done", "error"}
OnUploadPage == selection = "Cargar PDF"
OnAskPage == selection = "Consultar PDF"
IsPrefix(s, t) == Len(s) <= Len(t) /\ SubSeq(t, 1, Len(s)) = s
CallsOf(op) == {i \in 1..Len(trace) : trace[i].op = op}

\* C1, as stated: selecting "GPT-3.5-16k" sets model_name to "gpt-3.5-turbo",
\* the identifier that selecting "GPT-3.5" sets.
C1_SecondOptionIsFirst ==
    model = "GPT-3.5-16k" => model_name = "gpt-3.5-turbo"

\* C1, amended: selecting "GPT-3.5" sets model_name to "gpt-3.5-turbo";
\* selecting "GPT-3.5-16k" sets it to "gpt-4", exactly as selecting "GPT-4"
\* does, with gpt-4's token budget; "gpt-3.5-turbo-16k" is never set.
C1_SecondOptionIsThird ==
    /\ model = "GPT-3.5" => model_name = "gpt-3.5-turbo"
    /\ model \in {"GPT-3.5-16k", "GPT-4"} =>
           model_name = "gpt-4" /\ max_token = 8192 - InstructionTokens
    /\ model_name # "gpt-3.5-turbo-16k"

C1_Witness == model = "GPT-3.5-16k" /\ pc = "done"

\* C2: at the end of a run, after K queries of the session whose model call
\* returned, costs has exactly K entries and the sidebar's total is their sum
\* at 5 decimals.
C2_CostsCountQueries ==
    pc = "done" =>
        /\ Len(costs) = nQueries
        /\ sidebar = Some([total |-> Fmt5(Sum(costs)),
                           lines |-> [i \in 1..Len(costs) |-> Fmt5(costs[i])]])

\* a step that is a call of load_qdrant, from either caller
C3_LoadStep ==
    (pc \in {"build_vector_store", "build_qa_model"} /\ pc' # pc) =>
        /\ Cardinality(Named(store')) = 1
        /\ Ready(store')
        /\ Named(store) = {} =>
               /\ nLoads = 0
               /\ Points(store') = <<>>
               /\ store' \ Named(store') = store
        /\ nLoads > 0 => store' = store

\* C3: every call of load_qdrant leaves exactly one collection named
\* COLLECTION_NAME, of size 1536 and cosine distance; only the first call
\* creates it (empty, next to what the store held), and every later call
\* leaves the store, so the parameters and the entries, as it found it.
C3_EnsureIdempotent == [][C3_LoadStep]_vars

C3_Witness ==
    nLoads >= 2 /\ pc \in {"add_texts", "ask"} /\ Points(store) # <<>>

\* a step in which add_texts returns
C4_AddStep ==
    (pc = "add_texts" /\ pc' = "sidebar") =>
        /\ Len(Points(store')) = Len(Points(store)) + Len(pdf_text[1])
        /\ Points(store') = Points(store) \o pdf_text[1]

\* C4: a call of build_vector_store with N chunks that returns appends exactly
\* these N chunks to the entries, whatever the collection holds already.
C4_IngestAddsN == [][C4_AddStep]_vars

\* the same chunks ingested a second time
C4_Witness ==
    /\ pc = "sidebar"
    /\ OnUploadPage
    /\ TruthyList(pdf_text)
    /\ Points(store0) = pdf_text[1]
    /\ Points(store) = pdf_text[1] \o pdf_text[1]

\* C5: with an empty question the run makes no call (no load_qdrant, no
\* retrieval, no model call), shows no answer, appends no cost and leaves the
\* store alone.
C5_EmptyQuestionNoCall ==
    (OnAskPage /\ pc \in {"build_qa_model", "ask", "ask_llm", "sidebar", "done", "error"}
        /\ query = "") =>
        /\ pc \in {"sidebar", "done"}
        /\ trace = <<>>
        /\ answer = None
        /\ shown = None
        /\ costs = <<>>
        /\ store = store0

C5_Witness ==
    pc = "done" /\ OnAskPage /\ query = "" /\ Points(store) # <<>> /\ nQueries > 0

\* C6: whenever a run is about to write (add_texts) or read (similarity
\* search), and for every write and read it has issued, the collection exists
\* with size 1536 and cosine distance.
C6_CollectionBeforeUse ==
    /\ pc \in {"add_texts", "ask"} => Ready(store)
    /\ \A i \in CallsOf("add_texts") \cup CallsOf("similarity_search") : trace[i].ready

\* a read in the run that created the collection
C6_Witness ==
    /\ Named(store0) = {}
    /\ CallsOf("similarity_search") # {}
    /\ CallsOf("create_collection") # {}

\* what any step does to the entries
C7_Step ==
    /\ IsPrefix(Points(store), Points(store'))
    /\ Points(store') # Points(store) => pc = "add_texts" /\ OnUploadPage
    /\ OnAskPage => Points(store') = Points(store)

\* C7: no step shortens the entries; a step that changes them is the
\* add_texts of an upload run and appends; a run of the question page leaves
\* them as they are.
C7_EntriesOnlyGrow == [][C7_Step]_vars

C7_Witness ==
    /\ pc = "done" /\ OnAskPage /\ answer # None
    /\ Len(Points(store)) >= 2
    /\ runs >= 3

\* C8: on the upload page, without a file or with no chunks (None or an empty
\* list), build_vector_store is not called: the run makes no call on the
\* store, leaves it as it was, and ends without error.
C8_NoChunksNoIngestion ==
    (OnUploadPage /\ pc # "page_pdf_upload" /\ ~TruthyList(pdf_text)) =>
        /\ pc \in {"sidebar", "done"}
        /\ trace = <<>>
        /\ store = store0

C8_Witness ==
    pc = "done" /\ OnUploadPage /\ pdf_text = Some(<<>>) /\ Points(store) # <<>>

\* the step of a failing model call, and the step after an error
C9_FailedCallStep ==
    /\ (pc = "ask_llm" /\ pc' # pc /\ answer' = None) =>
           pc' = "error" /\ costs' = costs /\ nQueries' = nQueries
    /\ pc = "error" => pc' = "main" /\ trace' = <<>>

\* the state a failed model call leaves
C9_AtError ==
    (pc = "error" /\ OnAskPage) =>
        /\ costs = <<>>
        /\ answer = None
        /\ shown = None
        /\ sidebar = None
        /\ Cardinality(CallsOf("chat_completion")) = 1

\* C9: a failing model call ends the run in the error, with the costs as they
\* were (empty), no answer shown and no sidebar written; the run made this one
\* model call, and the only step after the error is the start of a new run.
C9_ErrorPropagates == [][C9_FailedCallStep]_vars /\ []C9_AtError

C9_Witness ==
    pc = "error" /\ OnAskPage /\ nQueries > 0 /\ docs # <<>>

\* C10: at the end of a run costs has at most one entry: one exactly when the
\* run was on the question page with a non-empty question and its model call
\* returned, none otherwise.
C10_AtMostOneCost ==
    RunEnded =>
        /\ Len(costs) <= 1
        /\ Len(costs) = 1 <=>
               (pc = "done" /\ OnAskPage /\ query # "" /\ answer # None)

C10_Witness ==
    pc = "done" /\ nQueries >= 2 /\ Len(costs) = 1

Spec == Init /\ [][Next]_vars
====
